---- MODULE Spec2Model ----
(***************************************************************************)
(* Model of pochta: an addressable channel registry.                       *)
(*                                                                         *)
(*   src/src/waker.rs  AtomicWaker  - the lock-free single-slot wake cell  *)
(*   src/src/lib.rs    Registry     - the engine: process/run/poll         *)
(*   src/src/lib.rs    Channel      - the producer handle: send/clone/drop *)
(*                                                                         *)
(* Every atomic memory operation of the code (compare_exchange, fetch_or,  *)
(* fetch_and, store, mpsc send, mpsc try_recv, Arc::strong_count, the drop *)
(* of an endpoint, the release of an Arc) is one step, so that every       *)
(* interleaving the threads can produce is a behaviour of the model.       *)
(***************************************************************************)
EXTENDS Integers, Sequences, FiniteSets

\* ------------------------------------------------------------------ bounds
MaxHandles == 2
MaxMsgs == 3
MaxConcMsgs == 2
NumKeys == 2
NumDests == 2
MaxOrderMsgs == 4
MaxCallers == 3
MaxCalls == 2

Handles == 1..MaxHandles
Keys == 1..NumKeys
Dests == 1..NumDests
Callers == 1..MaxCallers

\* ------------------------------------------------------- program constants
WAITING == 0
REGISTERING == 1
WAKING == 2

\* The values a task::Waker slot can hold: noop::waker() or a clone of the
\* waiter of the driving thread/task.
NoopWaker == "noop"
ThreadWaker == "W"
TaskWaker == "T"
Waiters == {ThreadWaker, TaskWaker}

\* A key without entry in the HashMap.
NoDest == 0

VARIABLES
    state,      \* AtomicWaker.state : AtomicU8
    waker,      \* AtomicWaker.waker : UnsafeCell<task::Waker>
    epc,        \* position of the engine inside run/process/register_ref
    eheld,      \* the local `waker` of impl_register's failure branch
    token,      \* the park token of the driving thread (unpark sets it)
    registry,   \* Registry.registry : HashMap<K, S>
    log,        \* every message ever enqueued on the control channel, in order
    nApplied,   \* how many of them try_recv has handed to the engine
    attempts,   \* every try_send the engine made, in order
    hpc,        \* position of each handle's thread
    hheld,      \* the local `waker` of AtomicWaker::wake
    hret,       \* whether a running wake() was called by send or by drop
    lastRes,    \* result of the handle's last subscribe/unsubscribe/send_to
    lastTorn,   \* whether the receiver was gone when that call was made
    lastEnq,    \* whether that call put its message on the control channel
    destOpen,   \* whether the remote end of destination s still exists
    dropWakes,  \* number of Channel::drop executions that called wake()
    regBegun,   \* register_ref has been called
    regWake,    \* a wake() started after the latest register_ref was called
    regWakeCas, \* a wake() started after its first compare_exchange
    regFired,   \* the waiter of the latest register_ref has been fired since
    htaken,     \* hheld[h] was taken from the slot after that call began
    regCalls,   \* register_ref calls made so far by the running process() step
    cpc,        \* position of each direct caller of the AtomicWaker
    cheld,      \* the local `waker` of that caller's wake or register_ref
    cwaiter,    \* the waiter that caller passed to register_ref
    cobs,       \* <<branch its last call took, status it found, status it left>>
    cexit,      \* <<outcome, status found>> of its register_ref's second CAS
    ccalls,     \* how many calls it has started
    cfired,     \* how often its last register_ref woke the passed waiter itself
    cstores,    \* waiters register_ref has written into the slot
    ctakes      \* waiters taken out of the slot and fired

vars == <<state, waker, epc, eheld, token, registry, log, nApplied, attempts,
          hpc, hheld, hret, lastRes, lastTorn, lastEnq, destOpen,
          dropWakes, regBegun, regWake, regWakeCas, regFired, htaken,
          regCalls, cpc, cheld, cwaiter, cobs, cexit, ccalls, cfired, cstores,
          ctakes>>

cellVars == <<state, waker>>
engineVars == <<epc, eheld, token, registry, nApplied, attempts>>
handleVars == <<hpc, hheld, hret, lastRes, lastTorn, lastEnq>>
envVars == <<destOpen>>
histVars == <<dropWakes, regBegun, regWake, regWakeCas, regFired, htaken,
              regCalls>>
callerVars == <<cpc, cheld, cwaiter, cobs, cexit, ccalls, cfired, cstores,
                ctakes>>

\* A control message is <<type, key, destination, value, handle>>: the
\* variant of enum Message with its fields, and the handle that sent it.
MsgT(m) == m[1]
MsgK(m) == m[2]
MsgS(m) == m[3]
MsgV(m) == m[4]
MsgH(m) == m[5]

\* A delivery attempt is <<message index, key, destination, succeeded>>.
AttM(a) == a[1]
AttK(a) == a[2]
AttS(a) == a[3]
AttOk(a) == a[4]

\* ------------------------------------------------------------ bit helpers
HasBit(s, b) == (s \div b) % 2 = 1
BitOr(s, b) == IF HasBit(s, b) THEN s ELSE s + b

\* Mutant: the bit is left set.
BitAndNotKeeps(s, b) == s

BitAndNot(s, b) == IF HasBit(s, b) THEN s - b ELSE s

\* --------------------------------------------------------- derived state
EngineAlive == epc # "dropped"

\* The messages still in the mpsc queue (dropped with the Receiver).
Queue == IF EngineAlive THEN SubSeq(log, nApplied + 1, Len(log)) ELSE << >>

\* A handle owns an open producer endpoint from its creation to the
\* ManuallyDrop::drop of Channel::drop.
EndpointOpen(h) == hpc[h] \in {"idle", "w_or", "w_swap", "w_and", "w_fire"}
                   /\ (hpc[h] = "idle" \/ hret[h] = "send")
OpenEndpoints == Cardinality({h \in Handles : EndpointOpen(h)})

\* A handle owns its Arc<State> from creation until the field is released at
\* the end of Channel::drop.
OwnsArc(h) == hpc[h] \notin {"none", "dead"}

\* Arc::strong_count(&self.state): the Registry's Arc plus the handles' Arcs.
StrongCount == (IF EngineAlive THEN 1 ELSE 0)
               + Cardinality({h \in Handles : OwnsArc(h)})

\* Senders of destination s the registry still owns: those travelling in
\* queued Subscribe messages and those stored in the HashMap. subscribe takes
\* its Sender by value, so once the registry owns none the transport of s is
\* disconnected unless user code kept a clone of its own.
EngineHolds(s) ==
    \/ \E i \in 1..Len(Queue) : MsgT(Queue[i]) = "Sub" /\ MsgS(Queue[i]) = s
    \/ EngineAlive /\ \E k \in Keys : registry[k] = s
Disconnected(s) == ~EngineHolds(s)

\* The values destination s has received, in order.
RECURSIVE ReceivedUpTo(_, _)
ReceivedUpTo(s, n) ==
    IF n = 0 THEN << >>
    ELSE IF AttS(attempts[n]) = s /\ AttOk(attempts[n])
         THEN Append(ReceivedUpTo(s, n - 1), MsgV(log[AttM(attempts[n])]))
         ELSE ReceivedUpTo(s, n - 1)
Received(s) == ReceivedUpTo(s, Len(attempts))

Init ==
    /\ state = WAITING
    /\ waker = NoopWaker
    /\ epc = "recv"
    /\ eheld = NoopWaker
    /\ token = FALSE
    /\ registry = [k \in Keys |-> NoDest]
    /\ log = << >>
    /\ nApplied = 0
    /\ attempts = << >>
    /\ hpc = [h \in Handles |-> IF h = 1 THEN "idle" ELSE "none"]
    /\ hheld = [h \in Handles |-> NoopWaker]
    /\ hret = [h \in Handles |-> "send"]
    /\ lastRes = [h \in Handles |-> "none"]
    /\ lastTorn = [h \in Handles |-> FALSE]
    /\ lastEnq = [h \in Handles |-> FALSE]
    /\ destOpen = [s \in Dests |-> TRUE]
    /\ dropWakes = 0
    /\ regBegun = FALSE
    /\ regWake = FALSE
    /\ regWakeCas = FALSE
    /\ regFired = FALSE
    /\ htaken = [h \in Handles |-> FALSE]
    /\ regCalls = 0
    /\ cpc = [c \in Callers |-> "idle"]
    /\ cheld = [c \in Callers |-> NoopWaker]
    /\ cwaiter = [c \in Callers |-> NoopWaker]
    /\ cobs = [c \in Callers |-> <<"none", WAITING, WAITING>>]
    /\ cexit = [c \in Callers |-> <<"none", WAITING>>]
    /\ ccalls = [c \in Callers |-> 0]
    /\ cfired = [c \in Callers |-> 0]
    /\ cstores = 0
    /\ ctakes = 0

\* ===================================================== the Registry engine

\* mpsc::Sender::send behind Sender::try_send: it fails only when the remote
\* end is gone, and the failure kind is Closed.
TrySend(s) == IF destOpen[s] THEN "Ok" ELSE "Closed"

\* Mutant: Subscribe keeps the Sender the key already has.
OnSubscribeKeepsFirst(reg, k, s) ==
    IF reg[k] # NoDest THEN reg ELSE [reg EXCEPT ![k] = s]

\* Message::Subscribe: self.registry.insert(key, channel)
OnSubscribe(reg, k, s) == [reg EXCEPT ![k] = s]

\* Mutant: Unsubscribe empties the whole map.
OnUnsubscribeClearsAll(reg, k) == [x \in Keys |-> NoDest]

\* Mutant: Unsubscribe leaves the entry in the map.
OnUnsubscribeKeeps(reg, k) == reg

\* Message::Unsubscribe: self.registry.remove(&key)
OnUnsubscribe(reg, k) == [reg EXCEPT ![k] = NoDest]

\* Mutant: a Closed failure leaves the entry in the map.
OnClosedKeeps(reg, k) == reg

\* SendErrorKind::Closed: entry.remove()
OnClosed(reg, k) == [reg EXCEPT ![k] = NoDest]

\* Whether Message::Msg finds an occupied entry and so calls try_send.
Occupied(reg, k) == reg[k] # NoDest

\* Message::Msg: look the key up, try_send on an occupied entry, remove the
\* entry when the send reports Closed.
OnMsg(reg, k) ==
    IF Occupied(reg, k)
    THEN IF TrySend(reg[k]) = "Ok" THEN reg ELSE OnClosed(reg, k)
    ELSE reg

\* Mutant: the Unsubscribe arm is skipped.
RegistryAfterNoUnsub(reg, m) ==
    CASE MsgT(m) = "Sub" -> OnSubscribe(reg, MsgK(m), MsgS(m))
      [] MsgT(m) = "Unsub" -> reg
      [] MsgT(m) = "Msg" -> OnMsg(reg, MsgK(m))

\* The HashMap after the engine has applied message m.
RegistryAfter(reg, m) ==
    CASE MsgT(m) = "Sub" -> OnSubscribe(reg, MsgK(m), MsgS(m))
      [] MsgT(m) = "Unsub" -> OnUnsubscribe(reg, MsgK(m))
      [] MsgT(m) = "Msg" -> OnMsg(reg, MsgK(m))

\* Mutant: the engine hands the newest message to the Sender first.
AttemptsAfterNewestFirst(att, reg, i, m) ==
    IF MsgT(m) = "Msg" /\ Occupied(reg, MsgK(m))
    THEN <<<<i, MsgK(m), reg[MsgK(m)], TrySend(reg[MsgK(m)]) = "Ok">>>> \o att
    ELSE att

\* The try_send calls made so far, after message number i, m, was applied.
AttemptsAfter(att, reg, i, m) ==
    IF MsgT(m) = "Msg" /\ Occupied(reg, MsgK(m))
    THEN Append(att, <<i, MsgK(m), reg[MsgK(m)], TrySend(reg[MsgK(m)]) = "Ok">>)
    ELSE att

\* try_recv returns Ok(message): apply it and continue the loop.
EApply ==
    /\ epc = "recv"
    /\ Queue # << >>
    /\ registry' = RegistryAfter(registry, log[nApplied + 1])
    /\ attempts' = AttemptsAfter(attempts, registry, nApplied + 1, log[nApplied + 1])
    /\ nApplied' = nApplied + 1
    /\ UNCHANGED <<epc, eheld, token, log, cellVars, handleVars, envVars, callerVars, histVars>>

\* Mutant: the queue counts as disconnected while one endpoint is left.
TryRecvEmptyOffByOne(open) == IF open > 1 THEN "Empty" ELSE "Disconnected"

\* What try_recv reports on an empty queue.
TryRecvEmpty(open) == IF open > 0 THEN "Empty" ELSE "Disconnected"

\* Mutant: Poll::Pending is returned without a call of register_ref.
AfterEmptyNoRegister == "park"

\* Where process() goes on after Err(Empty): into register_ref.
AfterEmpty == "reg_cas"

\* try_recv returns Err(Empty): go on to register_ref, then Poll::Pending.
EEmpty ==
    /\ epc = "recv"
    /\ Queue = << >>
    /\ TryRecvEmpty(OpenEndpoints) = "Empty"
    /\ epc' = AfterEmpty
    /\ regCalls' = IF AfterEmpty = "reg_cas" THEN regCalls + 1 ELSE regCalls
    /\ regBegun' = TRUE
    /\ regWake' = FALSE
    /\ regWakeCas' = FALSE
    /\ regFired' = FALSE
    /\ htaken' = [h \in Handles |-> FALSE]
    /\ UNCHANGED <<eheld, token, registry, nApplied, attempts, log,
                   cellVars, handleVars, envVars, callerVars, dropWakes>>

\* try_recv returns Err(Disconnected): Poll::Ready(Cancelled), run returns.
EDisconnected ==
    /\ epc = "recv"
    /\ Queue = << >>
    /\ TryRecvEmpty(OpenEndpoints) = "Disconnected"
    /\ epc' = "cancelled"
    /\ UNCHANGED <<eheld, token, registry, nApplied, attempts, log,
                   cellVars, handleVars, envVars, callerVars, histVars>>

\* Waker::wake / wake_by_ref of a waiter: the thread waker unparks the
\* driving thread (sets its token), the no-op waker does nothing.
Fire(w, tok) == IF w = ThreadWaker THEN TRUE ELSE tok

\* impl_register, first compare_exchange(WAITING, REGISTERING).
\*   WAITING: lock taken.  WAKING: wake the new waker by reference.
\*   otherwise (REGISTERING set): drop the call.
ERegCas ==
    /\ epc = "reg_cas"
    /\ IF state = WAITING
       THEN /\ state' = REGISTERING
            /\ epc' = "reg_store"
            /\ UNCHANGED <<token, regFired>>
       ELSE IF state = WAKING
       THEN /\ token' = Fire(ThreadWaker, token)
            /\ regFired' = TRUE
            /\ epc' = "park"
            /\ UNCHANGED state
       ELSE /\ epc' = "park"
            /\ UNCHANGED <<state, token, regFired>>
    /\ UNCHANGED <<waker, eheld, registry, nApplied, attempts, log,
                   handleVars, envVars, callerVars, dropWakes, regCalls, regBegun, regWake,
                   regWakeCas, htaken>>

\* register_ref body: store a clone unless the slot will_wake the same task.
WillWake(slot, w) == slot = w
ERegStore ==
    /\ epc = "reg_store"
    /\ waker' = IF ~WillWake(waker, ThreadWaker) THEN ThreadWaker ELSE waker
    /\ epc' = "reg_exit"
    /\ UNCHANGED <<state, eheld, token, registry, nApplied, attempts, log,
                   handleVars, envVars, callerVars, histVars>>

\* Mutant: the exit stores WAITING without looking at the WAKING bit.
ExitCasIgnoresWake(st) == TRUE

\* Whether compare_exchange(REGISTERING, WAITING) succeeds on status st.
ExitCasSucceeds(st) == st = REGISTERING

\* impl_register, second compare_exchange(REGISTERING, WAITING).
ERegExit ==
    /\ epc = "reg_exit"
    /\ IF ExitCasSucceeds(state)
       THEN state' = WAITING /\ epc' = "park"
       ELSE UNCHANGED state /\ epc' = "reg_swap"
    /\ UNCHANGED <<waker, eheld, token, registry, nApplied, attempts, log,
                   handleVars, envVars, callerVars, histVars>>

\* Failure branch: ptr::swap the slot with a no-op waker.
ERegSwap ==
    /\ epc = "reg_swap"
    /\ eheld' = waker
    /\ waker' = NoopWaker
    /\ epc' = "reg_restore"
    /\ UNCHANGED <<state, token, registry, nApplied, attempts, log,
                   handleVars, envVars, callerVars, histVars>>

\* drop(state_guard): StateRestore stores WAITING.
ERegRestore ==
    /\ epc = "reg_restore"
    /\ state' = WAITING
    /\ epc' = "reg_fire"
    /\ UNCHANGED <<waker, eheld, token, registry, nApplied, attempts, log,
                   handleVars, envVars, callerVars, histVars>>

\* waker.wake() of the waiter taken out of the slot.
ERegFire ==
    /\ epc = "reg_fire"
    /\ token' = Fire(eheld, token)
    /\ regFired' = (regFired \/ eheld = ThreadWaker)
    /\ eheld' = NoopWaker
    /\ epc' = "park"
    /\ UNCHANGED <<cellVars, registry, nApplied, attempts, log,
                   handleVars, envVars, callerVars, dropWakes, regCalls, regBegun, regWake,
                   regWakeCas, htaken>>

\* Poll::Pending => std::thread::park(): returns once the token is set and
\* consumes it (for the Future: the scheduler polls again after the wake).
EPark ==
    /\ epc = "park"
    /\ token
    /\ token' = FALSE
    /\ epc' = "recv"
    /\ regCalls' = 0
    /\ UNCHANGED <<eheld, registry, nApplied, attempts, log,
                   cellVars, handleVars, envVars, callerVars, dropWakes,
                   regBegun, regWake, regWakeCas, regFired, htaken>>

\* park() may also return spuriously, without a token.
EParkSpurious ==
    /\ epc = "park"
    /\ ~token
    /\ epc' = "recv"
    /\ regCalls' = 0
    /\ UNCHANGED <<eheld, token, registry, nApplied, attempts, log,
                   cellVars, handleVars, envVars, callerVars, dropWakes,
                   regBegun, regWake, regWakeCas, regFired, htaken>>

\* The Registry is dropped by its owner while suspended as a Future or after
\* run returned: the Receiver, the HashMap and its Arc<State> go away.
EDrop ==
    /\ epc \in {"park", "cancelled"}
    /\ epc' = "dropped"
    /\ registry' = [k \in Keys |-> NoDest]
    /\ UNCHANGED <<eheld, token, nApplied, attempts, log,
                   cellVars, handleVars, envVars, callerVars, histVars>>

\* The steps of Registry::run (or of the polls of the Future).
EngineRun ==
    \/ EApply \/ EEmpty \/ EDisconnected
    \/ ERegCas \/ ERegStore \/ ERegExit \/ ERegSwap \/ ERegRestore \/ ERegFire
    \/ EPark \/ EParkSpurious

EngineNext == EngineRun \/ EDrop

\* ====================================================== the Channel handle

\* mpsc::Sender::send on the control channel: fails only when the Receiver
\* has been dropped.
ChannelSend(alive) == IF alive THEN "Ok" ELSE "Err"

\* Mutant: the failure of the enqueue is swallowed.
SendResultAlwaysOk(r) == "ok"

\* Channel::send: Ok(()) after a successful enqueue (and the wake),
\* Err(Cancelled) otherwise.
SendResult(r) == IF r = "Ok" THEN "ok" ELSE "cancelled"

\* Channel::send(msg), up to the call of self.state.waker.wake().
Send(h, msg, max) ==
    /\ hpc[h] = "idle"
    /\ Len(log) < max
    /\ lastTorn' = [lastTorn EXCEPT ![h] = ~EngineAlive]
    /\ IF ChannelSend(EngineAlive) = "Ok"
       THEN /\ log' = Append(log, msg)
            /\ lastEnq' = [lastEnq EXCEPT ![h] = TRUE]
            /\ hpc' = [hpc EXCEPT ![h] = "w_or"]
            /\ hret' = [hret EXCEPT ![h] = "send"]
            /\ lastRes' = [lastRes EXCEPT ![h] = "none"]
       ELSE /\ lastRes' = [lastRes EXCEPT ![h] = SendResult(ChannelSend(EngineAlive))]
            /\ lastEnq' = [lastEnq EXCEPT ![h] = FALSE]
            /\ UNCHANGED <<log, hpc, hret>>
    /\ UNCHANGED <<hheld, cellVars, engineVars, envVars, callerVars, histVars>>

\* Channel::subscribe(key, channel): the Sender is moved into the message.
HSubscribe(h, k, s, max) ==
    Send(h, <<"Sub", k, s, 0, h>>, max)

\* Channel::unsubscribe(key)
HUnsubscribe(h, k, max) ==
    Send(h, <<"Unsub", k, NoDest, 0, h>>, max)

\* Channel::send_to(key, msg): every value sent is a distinct one, named by
\* its place in the log.
HSendTo(h, k, max) ==
    Send(h, <<"Msg", k, NoDest, Len(log) + 1, h>>, max)

\* Where a handle's thread continues when its wake() returns: Channel::send
\* returns Ok(()), Channel::drop goes on to release its fields.
Return(h) == IF hret[h] = "send" THEN "idle" ELSE "d_release"
ResultAtReturn(h) == IF hret[h] = "send" THEN SendResult("Ok") ELSE lastRes[h]

\* Mutant: a wake takes the waking lock whenever no other wake holds it.
WakeLockIgnoresRegistering(old) == ~HasBit(old, WAKING)

\* AtomicWaker::wake: whether the value fetch_or returned gives this caller
\* the waking lock.
WakeLockAcquired(old) == old = WAITING

\* AtomicWaker::wake, self.state.fetch_or(WAKING).
HWakeOr(h) ==
    /\ hpc[h] = "w_or"
    /\ state' = BitOr(state, WAKING)
    /\ regWake' = (regWake \/ regBegun)
    /\ regWakeCas' = (regWakeCas \/ (regBegun /\ epc # "reg_cas"))
    /\ IF WakeLockAcquired(state)
       THEN /\ hpc' = [hpc EXCEPT ![h] = "w_swap"]
            /\ UNCHANGED lastRes
       ELSE /\ hpc' = [hpc EXCEPT ![h] = Return(h)]
            /\ lastRes' = [lastRes EXCEPT ![h] = ResultAtReturn(h)]
    /\ UNCHANGED <<waker, hheld, hret, lastTorn, lastEnq, engineVars, log,
                   envVars, callerVars, dropWakes, regCalls, regBegun, regFired, htaken>>

\* AtomicWaker::wake, ptr::swap of the slot with a no-op waker.
HWakeSwap(h) ==
    /\ hpc[h] = "w_swap"
    /\ hheld' = [hheld EXCEPT ![h] = waker]
    /\ htaken' = [htaken EXCEPT ![h] = (waker = ThreadWaker)]
    /\ waker' = NoopWaker
    /\ hpc' = [hpc EXCEPT ![h] = "w_and"]
    /\ UNCHANGED <<state, hret, lastRes, lastTorn, lastEnq, engineVars, log,
                   envVars, callerVars, dropWakes, regCalls, regBegun, regWake, regWakeCas, regFired>>

\* AtomicWaker::wake, self.state.fetch_and(!WAKING).
HWakeAnd(h) ==
    /\ hpc[h] = "w_and"
    /\ state' = BitAndNot(state, WAKING)
    /\ hpc' = [hpc EXCEPT ![h] = "w_fire"]
    /\ UNCHANGED <<waker, hheld, hret, lastRes, lastTorn, lastEnq, engineVars,
                   log, envVars, callerVars, histVars>>

\* AtomicWaker::wake, waker.wake() of the waiter taken out of the slot.
HWakeFire(h) ==
    /\ hpc[h] = "w_fire"
    /\ token' = Fire(hheld[h], token)
    /\ regFired' = (regFired \/ (hheld[h] = ThreadWaker /\ htaken[h]))
    /\ hheld' = [hheld EXCEPT ![h] = NoopWaker]
    /\ htaken' = [htaken EXCEPT ![h] = FALSE]
    /\ hpc' = [hpc EXCEPT ![h] = Return(h)]
    /\ lastRes' = [lastRes EXCEPT ![h] = ResultAtReturn(h)]
    /\ UNCHANGED <<cellVars, hret, lastTorn, lastEnq, epc, eheld, registry,
                   nApplied, attempts, log, envVars, callerVars, dropWakes, regCalls, regBegun,
                   regWake, regWakeCas>>

\* Channel::clone: one more Arc<State> and one more producer endpoint.
HClone(h, n) ==
    /\ hpc[h] = "idle"
    /\ hpc[n] = "none"
    /\ hpc' = [hpc EXCEPT ![n] = "idle"]
    /\ UNCHANGED <<hheld, hret, lastRes, lastTorn, lastEnq, cellVars,
                   engineVars, log, envVars, callerVars, histVars>>

\* Channel::drop, ManuallyDrop::drop(&mut self.channel): the endpoint is
\* severed first.
HDropSever(h) ==
    /\ hpc[h] = "idle"
    /\ hpc' = [hpc EXCEPT ![h] = "d_count"]
    /\ hret' = [hret EXCEPT ![h] = "drop"]
    /\ UNCHANGED <<hheld, lastRes, lastTorn, lastEnq, cellVars, engineVars, log,
                   envVars, callerVars, histVars>>

\* Mutant: the count that means "last sender" is one too high.
IsLastSenderOffByOne(count) == count <= 3

\* Channel::drop: Arc::strong_count(&self.state) <= 2 means "last sender".
IsLastSender(count) == count <= 2

\* Channel::drop, the read of the strong count and the decision to wake.
HDropCount(h) ==
    /\ hpc[h] = "d_count"
    /\ IF IsLastSender(StrongCount)
       THEN /\ hpc' = [hpc EXCEPT ![h] = "w_or"]
            /\ dropWakes' = dropWakes + 1
       ELSE /\ hpc' = [hpc EXCEPT ![h] = "d_release"]
            /\ UNCHANGED dropWakes
    /\ UNCHANGED <<hheld, hret, lastRes, lastTorn, lastEnq, cellVars,
                   engineVars, log, envVars, callerVars, regBegun, regWake,
                   regWakeCas, regCalls,
                   regFired, htaken>>

\* End of Channel::drop: the field `state` is dropped, the Arc released.
HDropRelease(h) ==
    /\ hpc[h] = "d_release"
    /\ hpc' = [hpc EXCEPT ![h] = "dead"]
    /\ UNCHANGED <<hheld, hret, lastRes, lastTorn, lastEnq, cellVars,
                   engineVars, log, envVars, callerVars, histVars>>

\* The steps inside AtomicWaker::wake of handle h.
HWake(h) == HWakeOr(h) \/ HWakeSwap(h) \/ HWakeAnd(h) \/ HWakeFire(h)

\* ======================================= direct callers of the AtomicWaker
\* AtomicWaker is Sync and its methods take &self: any number of threads may
\* run register_ref and wake on one cell. Each caller makes up to MaxCalls
\* calls; a call starts with its first atomic operation.

\* Mutant: a register call that finds REGISTERING set wakes the passed waiter
\* as in the WAKING arm.
RegisterCasWakesBusy(st) == IF st = WAITING THEN "lock" ELSE "waking"

\* Mutant: a register call takes the lock although REGISTERING is set.
RegisterCasNoExclusion(st) ==
    IF st = WAITING \/ st = REGISTERING THEN "lock"
    ELSE IF st = WAKING THEN "waking" ELSE "busy"

\* impl_register: the arm the result of compare_exchange(WAITING,
\* REGISTERING) selects.
RegisterCas(st) ==
    IF st = WAITING THEN "lock"
    ELSE IF st = WAKING THEN "waking" ELSE "busy"

\* Mutant: the slot keeps the waiter that was taken out of it.
SwapNoopKeeps(slot) == slot

\* The slot after ptr::swap(self.waker.get(), &mut noop::waker()).
SwapNoop(slot) == NoopWaker

\* register_ref(w), compare_exchange(WAITING, REGISTERING) and its arms.
CRegCas(c, w) ==
    /\ cpc[c] = "idle"
    /\ ccalls[c] < MaxCalls
    /\ ccalls' = [ccalls EXCEPT ![c] = @ + 1]
    /\ cwaiter' = [cwaiter EXCEPT ![c] = w]
    /\ cexit' = [cexit EXCEPT ![c] = <<"none", WAITING>>]
    /\ state' = IF RegisterCas(state) = "lock" THEN REGISTERING ELSE state
    /\ cobs' = [cobs EXCEPT ![c] = <<RegisterCas(state), state, state'>>]
    /\ cfired' = [cfired EXCEPT ![c] = IF RegisterCas(state) = "waking" THEN 1 ELSE 0]
    /\ cpc' = [cpc EXCEPT ![c] = IF RegisterCas(state) = "lock" THEN "r_store" ELSE "idle"]
    /\ UNCHANGED <<waker, cheld, cstores, ctakes, engineVars, log, handleVars,
                   envVars, histVars>>

\* register_ref body: store a clone unless the slot will_wake the same task.
CRegStore(c) ==
    /\ cpc[c] = "r_store"
    /\ IF ~WillWake(waker, cwaiter[c])
       THEN waker' = cwaiter[c] /\ cstores' = cstores + 1
       ELSE UNCHANGED <<waker, cstores>>
    /\ cpc' = [cpc EXCEPT ![c] = "r_exit"]
    /\ UNCHANGED <<state, cheld, cwaiter, cobs, cexit, ccalls, cfired, ctakes,
                   engineVars, log, handleVars, envVars, histVars>>

\* impl_register, compare_exchange(REGISTERING, WAITING).
CRegExit(c) ==
    /\ cpc[c] = "r_exit"
    /\ IF ExitCasSucceeds(state)
       THEN /\ state' = WAITING
            /\ cpc' = [cpc EXCEPT ![c] = "idle"]
            /\ cexit' = [cexit EXCEPT ![c] = <<"ok", state>>]
       ELSE /\ cpc' = [cpc EXCEPT ![c] = "r_swap"]
            /\ cexit' = [cexit EXCEPT ![c] = <<"failed", state>>]
            /\ UNCHANGED state
    /\ UNCHANGED <<waker, cheld, cwaiter, cobs, ccalls, cfired, cstores, ctakes,
                   engineVars, log, handleVars, envVars, histVars>>

\* Failure branch: ptr::swap the slot with a no-op waker.
CRegSwap(c) ==
    /\ cpc[c] = "r_swap"
    /\ cheld' = [cheld EXCEPT ![c] = waker]
    /\ waker' = SwapNoop(waker)
    /\ cpc' = [cpc EXCEPT ![c] = "r_restore"]
    /\ UNCHANGED <<state, cwaiter, cobs, cexit, ccalls, cfired, cstores, ctakes,
                   engineVars, log, handleVars, envVars, histVars>>

\* drop(state_guard): StateRestore stores WAITING.
CRegRestore(c) ==
    /\ cpc[c] = "r_restore"
    /\ state' = WAITING
    /\ cpc' = [cpc EXCEPT ![c] = "r_fire"]
    /\ UNCHANGED <<waker, cheld, cwaiter, cobs, cexit, ccalls, cfired, cstores,
                   ctakes, engineVars, log, handleVars, envVars, histVars>>

\* The waiter a caller holds is fired: one more waiter taken out of the slot
\* and fired, unless it is the no-op waker.
TakesAfterFire(w, n) == IF w = NoopWaker THEN n ELSE n + 1

\* waker.wake() of the waiter taken out of the slot by register_ref.
CRegFire(c) ==
    /\ cpc[c] = "r_fire"
    /\ ctakes' = TakesAfterFire(cheld[c], ctakes)
    /\ cheld' = [cheld EXCEPT ![c] = NoopWaker]
    /\ cpc' = [cpc EXCEPT ![c] = "idle"]
    /\ UNCHANGED <<cellVars, cwaiter, cobs, cexit, ccalls, cfired, cstores,
                   engineVars, log, handleVars, envVars, histVars>>

\* wake(), self.state.fetch_or(WAKING) and its arms.
CWakeOr(c) ==
    /\ cpc[c] = "idle"
    /\ ccalls[c] < MaxCalls
    /\ ccalls' = [ccalls EXCEPT ![c] = @ + 1]
    /\ state' = BitOr(state, WAKING)
    /\ cobs' = [cobs EXCEPT ![c] =
                   <<IF WakeLockAcquired(state) THEN "wake_lock" ELSE "wake_miss",
                     state, state'>>]
    /\ cexit' = [cexit EXCEPT ![c] = <<"none", WAITING>>]
    /\ cfired' = [cfired EXCEPT ![c] = 0]
    /\ cpc' = [cpc EXCEPT ![c] = IF WakeLockAcquired(state) THEN "w_swap" ELSE "idle"]
    /\ UNCHANGED <<waker, cheld, cwaiter, cstores, ctakes, engineVars, log,
                   handleVars, envVars, histVars>>

\* wake(), ptr::swap of the slot with a no-op waker.
CWakeSwap(c) ==
    /\ cpc[c] = "w_swap"
    /\ cheld' = [cheld EXCEPT ![c] = waker]
    /\ waker' = SwapNoop(waker)
    /\ cpc' = [cpc EXCEPT ![c] = "w_and"]
    /\ UNCHANGED <<state, cwaiter, cobs, cexit, ccalls, cfired, cstores, ctakes,
                   engineVars, log, handleVars, envVars, histVars>>

\* wake(), self.state.fetch_and(!WAKING).
CWakeAnd(c) ==
    /\ cpc[c] = "w_and"
    /\ state' = BitAndNot(state, WAKING)
    /\ cpc' = [cpc EXCEPT ![c] = "w_fire"]
    /\ UNCHANGED <<waker, cheld, cwaiter, cobs, cexit, ccalls, cfired, cstores,
                   ctakes, engineVars, log, handleVars, envVars, histVars>>

\* wake(), waker.wake() of the waiter taken out of the slot.
CWakeFire(c) ==
    /\ cpc[c] = "w_fire"
    /\ ctakes' = TakesAfterFire(cheld[c], ctakes)
    /\ cheld' = [cheld EXCEPT ![c] = NoopWaker]
    /\ cpc' = [cpc EXCEPT ![c] = "idle"]
    /\ UNCHANGED <<cellVars, cwaiter, cobs, cexit, ccalls, cfired, cstores,
                   engineVars, log, handleVars, envVars, histVars>>

\* ========================================================= the environment

\* The remote end of destination s goes away: its Sender reports Closed
\* from now on.
CloseDest(s) ==
    /\ destOpen[s]
    /\ destOpen' = [destOpen EXCEPT ![s] = FALSE]
    /\ UNCHANGED <<cellVars, engineVars, log, handleVars, histVars, callerVars>>

\* ==================================================== the specifications

\* Spec: the concurrency of the registry. Up to MaxHandles handles are
\* cloned, used and dropped on threads of their own while the engine runs;
\* they address the first key and the first destination.
HandleNext ==
    \E h \in Handles :
        \/ HSubscribe(h, 1, 1, MaxConcMsgs)
        \/ HUnsubscribe(h, 1, MaxConcMsgs)
        \/ HSendTo(h, 1, MaxConcMsgs)
        \/ HWake(h)
        \/ \E n \in Handles : HClone(h, n)
        \/ HDropSever(h) \/ HDropCount(h) \/ HDropRelease(h)

Next == EngineNext \/ HandleNext \/ CloseDest(1)

Spec == Init /\ [][Next]_vars

\* SpecRoute: the routing of the registry. One handle issues up to MaxMsgs
\* calls over all keys and destinations and is dropped in the end, while the
\* engine, kept by its owner, runs and destinations close.
RouteNext ==
    \/ \E k \in Keys, s \in Dests : HSubscribe(1, k, s, MaxMsgs)
    \/ \E k \in Keys : HUnsubscribe(1, k, MaxMsgs)
    \/ \E k \in Keys : HSendTo(1, k, MaxMsgs)
    \/ HWake(1)
    \/ HDropSever(1) \/ HDropCount(1) \/ HDropRelease(1)

NextRoute == EngineRun \/ RouteNext \/ \E s \in Dests : CloseDest(s)

SpecRoute == Init /\ [][NextRoute]_vars

\* SpecTest: the program of the test send_and_unsubscribe, for any key and
\* destination: subscribe(k, s), send_to(k, "test"), unsubscribe(k),
\* send_to(k, "test2"), then drop(channel.clone()) and drop(channel), while
\* the worker thread runs the engine.
TestLen == 4
TestKey == MsgK(log[1])
TestNext ==
    \/ Len(log) = 0 /\ \E k \in Keys, s \in Dests : HSubscribe(1, k, s, TestLen)
    \/ Len(log) \in {1, 3} /\ HSendTo(1, TestKey, TestLen)
    \/ Len(log) = 2 /\ HUnsubscribe(1, TestKey, TestLen)
    \/ Len(log) = TestLen /\ HClone(1, 2)
    \/ hpc[2] # "none" /\ HDropSever(2)
    \/ hpc[2] = "dead" /\ HDropSever(1)
    \/ \E h \in Handles : HWake(h) \/ HDropCount(h) \/ HDropRelease(h)

\* The worker thread owns the engine and drops it when run has returned.
WorkerNext == EngineRun \/ (epc = "cancelled" /\ EDrop)

NextTest == WorkerNext \/ TestNext

SpecTest == Init /\ [][NextTest]_vars

\* SpecOrder: the order of delivery. The handles, cloned from the first one
\* and kept alive, make up to MaxOrderMsgs calls in all on the first key from
\* threads of their own, a subscribe first and then sends, re-subscribes
\* and unsubscribes, while the engine runs and the destination may close.
OrderNext ==
    \E h \in Handles :
        \/ HSubscribe(h, 1, 1, MaxOrderMsgs)
        \/ Len(log) > 0 /\ HUnsubscribe(h, 1, MaxOrderMsgs)
        \/ Len(log) > 0 /\ HSendTo(h, 1, MaxOrderMsgs)
        \/ HWake(h)
        \/ \E n \in Handles : HClone(h, n)

\* The steps of the engine while a handle is alive: try_recv cannot report
\* Disconnected.
EngineLoop ==
    \/ EApply \/ EEmpty
    \/ ERegCas \/ ERegStore \/ ERegExit \/ ERegSwap \/ ERegRestore \/ ERegFire
    \/ EPark \/ EParkSpurious

NextOrder == EngineLoop \/ OrderNext \/ CloseDest(1)

SpecOrder == Init /\ [][NextOrder]_vars

\* SpecCell: the AtomicWaker alone, under MaxCallers threads that each make
\* up to MaxCalls calls of register_ref (with the thread's or the task's
\* waiter) and wake in any order and interleaving.
NextCell ==
    \E c \in Callers :
        \/ \E w \in Waiters : CRegCas(c, w)
        \/ CRegStore(c) \/ CRegExit(c) \/ CRegSwap(c) \/ CRegRestore(c)
        \/ CRegFire(c)
        \/ CWakeOr(c) \/ CWakeSwap(c) \/ CWakeAnd(c) \/ CWakeFire(c)

SpecCell == Init /\ [][NextCell]_vars

\* ================================================================ claims

\* No handle is inside a call: each is not yet cloned, idle or destroyed.
HandlesQuiet == \A h \in Handles : hpc[h] \in {"none", "idle", "dead"}

\* Every handle that was ever created has been destroyed completely.
AllDestroyed == \A h \in Handles : hpc[h] \in {"none", "dead"}

\* The driver is suspended and nothing is on its way to resume it.
Suspended == epc = "park" /\ ~token

\* No register_ref and no wake call is running.
CellCallsReturned ==
    /\ epc \notin {"reg_cas", "reg_store", "reg_exit", "reg_swap",
                   "reg_restore", "reg_fire"}
    /\ \A h \in Handles : hpc[h] \notin {"w_or", "w_swap", "w_and", "w_fire"}

\* The successful try_send calls that handed message j to destination s.
DeliveredTo(j, s) ==
    {n \in 1..Len(attempts) : AttM(attempts[n]) = j /\ AttS(attempts[n]) = s /\ AttOk(attempts[n])}

\* Whether a message of one of the types ts for key k lies strictly between
\* places i and j of the log.
Between(i, j, k, ts) ==
    \E x \in (i + 1)..(j - 1) : MsgK(log[x]) = k /\ MsgT(log[x]) \in ts

\* C1 (Termination): once every Handle has been destroyed the engine is not
\* left suspended with no wake on its way; it goes on to find the channel
\* disconnected and returns Cancelled.
C1_Termination ==
    (AllDestroyed /\ EngineAlive) => ~Suspended

\* C2 (Subscribe-then-send): for subscribe(k, s) followed by send_to(k, v)
\* from one Handle, with no unsubscribe or re-subscribe of k in between and
\* s open, s never receives v twice, and when the Handles have returned and
\* the driven engine has come to rest, s has received v exactly once.
C2_SubscribeThenSend ==
    \A i \in 1..Len(log), j \in 1..Len(log) :
        ( /\ i < j
          /\ MsgT(log[i]) = "Sub" /\ MsgT(log[j]) = "Msg"
          /\ MsgK(log[i]) = MsgK(log[j]) /\ MsgH(log[i]) = MsgH(log[j])
          /\ ~Between(i, j, MsgK(log[i]), {"Sub", "Unsub"})
          /\ destOpen[MsgS(log[i])]
          /\ EngineAlive )
        => /\ Cardinality(DeliveredTo(j, MsgS(log[i]))) <= 1
           /\ (HandlesQuiet /\ (Suspended \/ epc = "cancelled"))
                  => Cardinality(DeliveredTo(j, MsgS(log[i]))) = 1

\* C3 (no wake is lost): the driver is never left suspended, with no Handle
\* call running and no wake on its way, while the control queue holds a
\* message.
C3_NoLostWake ==
    (HandlesQuiet /\ EngineAlive /\ Queue # << >>) => ~Suspended

\* C4 as stated: if a wake() started after register was called, the waiter
\* of that call has been fired once all the calls have returned.
C4_FiredAfterCall ==
    (regBegun /\ regWake /\ CellCallsReturned) => regFired

\* C4 as amended: if a wake() started after the first compare-and-swap of
\* the register call, the waiter of that call has been fired once all the
\* calls have returned.
C4_FiredAfterCas ==
    (regBegun /\ regWakeCas /\ CellCallsReturned) => regFired

\* A wake() that came after the compare-and-swap of a register call, all
\* calls returned, the driver suspended or resumed.
C4_Witness ==
    regBegun /\ regWakeCas /\ CellCallsReturned /\ regFired

\* C5 (Unsubscribe-then-send): a Msg for k enqueued after an Unsubscribe of
\* k, with no Subscribe for k between them, is never handed to a Sender, and
\* the send_to that enqueued it returns Ok.
C5_UnsubscribeThenSend ==
    \A i \in 1..Len(log), j \in 1..Len(log) :
        ( /\ i < j
          /\ MsgT(log[i]) = "Unsub" /\ MsgT(log[j]) = "Msg" /\ MsgK(log[i]) = MsgK(log[j])
          /\ ~Between(i, j, MsgK(log[i]), {"Sub"}) )
        => /\ \A n \in 1..Len(attempts) : AttM(attempts[n]) # j
           /\ (j = Len(log) /\ hpc[MsgH(log[j])] = "idle" /\ lastEnq[MsgH(log[j])])
                  => lastRes[MsgH(log[j])] = "ok"

\* Subscribe(k, s) with s open, Unsubscribe(k), Msg(k), all applied, the
\* call returned.
C5_Witness ==
    \E i \in 1..Len(log), j \in 1..Len(log), b \in 1..Len(log) :
        /\ b < i /\ i < j /\ j <= nApplied
        /\ MsgT(log[b]) = "Sub" /\ MsgK(log[b]) = MsgK(log[i]) /\ destOpen[MsgS(log[b])]
        /\ MsgT(log[i]) = "Unsub" /\ MsgT(log[j]) = "Msg" /\ MsgK(log[i]) = MsgK(log[j])
        /\ ~Between(i, j, MsgK(log[i]), {"Sub"})
        /\ hpc[1] = "idle" /\ lastRes[1] = "ok"

\* C6 (closed-destination self-healing): after a try_send for key k reported
\* Closed, k is absent from the map until a Subscribe for k is applied, a
\* later Msg for k is attempted only after such a Subscribe, no message is
\* attempted twice, and the engine does not terminate while an endpoint is
\* open.
C6_ClosedSelfHealing ==
    /\ \A n \in 1..Len(attempts) :
           ~AttOk(attempts[n]) =>
               /\ \A n2 \in (n + 1)..Len(attempts) :
                      AttK(attempts[n2]) = AttK(attempts[n]) =>
                          Between(AttM(attempts[n]), AttM(attempts[n2]), AttK(attempts[n]), {"Sub"})
               /\ ~Between(AttM(attempts[n]), nApplied + 1, AttK(attempts[n]), {"Sub"})
                      => registry[AttK(attempts[n])] = NoDest
               /\ OpenEndpoints > 0 => epc # "cancelled"
    /\ \A n \in 1..Len(attempts), n2 \in 1..Len(attempts) :
           AttM(attempts[n]) = AttM(attempts[n2]) => n = n2

\* A try_send reported Closed and a later Msg for the same key has been
\* applied with no Subscribe for the key in between.
C6_Witness ==
    \E n \in 1..Len(attempts), j \in 1..Len(log) :
        /\ ~AttOk(attempts[n])
        /\ AttM(attempts[n]) < j /\ j <= nApplied
        /\ MsgT(log[j]) = "Msg" /\ MsgK(log[j]) = AttK(attempts[n])
        /\ ~Between(AttM(attempts[n]), j, AttK(attempts[n]), {"Sub"})

\* C7: a Handle call returns Cancelled exactly when the receiver was gone at
\* the call, and Ok otherwise; a call that returns Cancelled has enqueued
\* nothing and a call that returns Ok has enqueued its message.
C7_CancelledIffTornDown ==
    \A h \in Handles :
        lastRes[h] # "none" =>
            /\ lastRes[h] \in {"ok", "cancelled"}
            /\ (lastRes[h] = "cancelled") <=> lastTorn[h]
            /\ (lastRes[h] = "cancelled") <=> ~lastEnq[h]

\* A call returned Cancelled on a registry whose engine had taken messages
\* before and was then dropped.
C7_Witness ==
    \E h \in Handles :
        lastRes[h] = "cancelled" /\ Len(log) > 0 /\ epc = "dropped"

\* C8: once the engine has applied Subscribe(k, s), Msg(k, v1),
\* Unsubscribe(k), Msg(k, v2) of the test, s has received v1 and nothing
\* else; and from the Unsubscribe on the registry owns no Sender of s, so s
\* is disconnected, whether or not Handles are alive.
C8_TestScenario ==
    /\ nApplied = TestLen => Received(MsgS(log[1])) = <<MsgV(log[2])>>
    /\ nApplied >= 3 => Disconnected(MsgS(log[1]))

\* The four messages applied while the Handle is still alive.
C8_Witness ==
    /\ nApplied = TestLen /\ hpc[1] = "idle" /\ EngineAlive
    /\ Received(MsgS(log[1])) = <<MsgV(log[2])>>
    /\ Disconnected(MsgS(log[1]))

\* C9: the engine reports Cancelled only when no producer endpoint is open
\* and every enqueued message has been applied; so never while a Handle can
\* still send, and never because a Sender reported Closed.
C9_CancelledOnlyWhenSevered ==
    epc = "cancelled" =>
        /\ OpenEndpoints = 0
        /\ \A h \in Handles : hpc[h] # "idle"
        /\ nApplied = Len(log)

\* The engine returned Cancelled after it applied messages, one of which
\* met a closed destination.
C9_Witness ==
    /\ epc = "cancelled"
    /\ nApplied = MaxConcMsgs
    /\ \E n \in 1..Len(attempts) : ~AttOk(attempts[n])

\* C10 (teardown wake is exactly-once): when all Handles of a registry whose
\* engine is alive have been destroyed, exactly one of the destructions has
\* called wake().
C10_ExactlyOneTeardownWake ==
    (AllDestroyed /\ EngineAlive) => dropWakes = 1

\* C11 (per-producer order): the engine hands messages to Senders in the
\* order they were enqueued, each at most once; and when a Handle enqueued
\* Msg(k, v1) and later Msg(k, v2) with no Subscribe of k between them, a
\* destination that has received v2 has received v1 before it, whatever the
\* other Handles enqueued in between.
C11_PerProducerOrder ==
    /\ \A n1 \in 1..Len(attempts), n2 \in 1..Len(attempts) :
           n1 < n2 => AttM(attempts[n1]) < AttM(attempts[n2])
    /\ \A i \in 1..Len(log), j \in 1..Len(log) :
           ( /\ i < j
             /\ MsgT(log[i]) = "Msg" /\ MsgT(log[j]) = "Msg"
             /\ MsgK(log[i]) = MsgK(log[j]) /\ MsgH(log[i]) = MsgH(log[j])
             /\ ~Between(i, j, MsgK(log[i]), {"Sub"}) )
           => \A n2 \in 1..Len(attempts) :
                  (AttM(attempts[n2]) = j /\ AttOk(attempts[n2])) =>
                      \E n1 \in 1..(n2 - 1) :
                          /\ AttM(attempts[n1]) = i
                          /\ AttS(attempts[n1]) = AttS(attempts[n2])
                          /\ AttOk(attempts[n1])

\* One Handle's v1 and v2 both delivered, with a message of another Handle
\* enqueued between them.
C11_Witness ==
    \E i \in 1..Len(log), j \in 1..Len(log), x \in 1..Len(log) :
        /\ i < x /\ x < j
        /\ MsgT(log[i]) = "Msg" /\ MsgT(log[j]) = "Msg"
        /\ MsgH(log[i]) = MsgH(log[j]) /\ MsgH(log[x]) # MsgH(log[i])
        /\ DeliveredTo(i, 1) # {} /\ DeliveredTo(j, 1) # {}

\* The arms of register_ref's first compare-and-swap.
RegisterArms == {"lock", "waking", "busy"}

\* The callers inside the section between taking a lock and releasing it.
LockHolders ==
    {c \in Callers :
        cpc[c] \in {"r_store", "r_exit", "r_swap", "r_restore", "w_swap", "w_and"}}

\* No direct caller is inside a call.
CellQuiet == \A c \in Callers : cpc[c] = "idle"

\* C12 as stated: a register call that found the Registering bit set has
\* fired the passed-in waiter exactly once and left the status as it was.
C12_BusyRegisterFires ==
    \A c \in Callers :
        (cobs[c][1] \in RegisterArms /\ HasBit(cobs[c][2], REGISTERING))
        => (cfired[c] = 1 /\ cobs[c][3] = cobs[c][2])

\* C12 as amended: a register call that finds the Registering bit set, with
\* or without Waking, is dropped: it returns at once, fires no waiter and
\* changes neither the status nor the slot.
C12_BusyRegisterDropped ==
    [][\A c \in Callers :
          ( /\ ccalls'[c] # ccalls[c]
            /\ cobs'[c][1] \in RegisterArms
            /\ HasBit(state, REGISTERING) )
          => /\ cfired'[c] = 0 /\ ctakes' = ctakes
             /\ state' = state /\ waker' = waker
             /\ cpc'[c] = "idle"]_vars

\* Register calls have found Registering alone and Registering|Waking.
C12_Witness ==
    \E c \in Callers, d \in Callers :
        /\ cobs[c] = <<"busy", REGISTERING, REGISTERING>>
        /\ cobs[d] = <<"busy", REGISTERING + WAKING, REGISTERING + WAKING>>

\* C16 (slot exclusivity): at most one call is between taking a lock and
\* releasing it, it is the register call that moved the status from Idle to
\* Registering or the wake call that moved it from Idle to Waking, and the
\* status shows its lock; the slot changes to a waiter other than the no-op
\* one only while the Registering bit is set.
C16_SlotExclusive ==
    /\ [](/\ Cardinality(LockHolders) <= 1
          /\ \A c \in LockHolders :
                 \/ /\ cobs[c] = <<"lock", WAITING, REGISTERING>>
                    /\ cpc[c] \in {"r_store", "r_exit", "r_swap", "r_restore"}
                    /\ HasBit(state, REGISTERING)
                 \/ /\ cobs[c] = <<"wake_lock", WAITING, WAKING>>
                    /\ cpc[c] \in {"w_swap", "w_and"}
                    /\ state = WAKING)
    /\ [][waker' # waker =>
              \/ waker' = NoopWaker
              \/ HasBit(state, REGISTERING) /\ HasBit(state', REGISTERING)]_vars

\* A register call holds the lock with a waiter stored while a wake has set
\* the Waking bit and another register call has been turned away.
C16_Witness ==
    \E c \in Callers, d \in Callers :
        /\ cpc[c] = "r_exit" /\ waker # NoopWaker
        /\ state = REGISTERING + WAKING
        /\ cobs[d][1] = "busy"

\* C17 (state assertions): a failed exit compare-and-swap has observed
\* Registering|Waking; a wake that did not find Idle has observed
\* Registering, Registering|Waking or Waking; a register call that found
\* neither Idle nor Waking has observed Registering or Registering|Waking.
C17_Assertions ==
    \A c \in Callers :
        /\ cexit[c][1] = "failed" => cexit[c][2] = REGISTERING + WAKING
        /\ cobs[c][1] = "wake_miss" =>
               cobs[c][2] \in {REGISTERING, REGISTERING + WAKING, WAKING}
        /\ cobs[c][1] = "busy" =>
               cobs[c][2] \in {REGISTERING, REGISTERING + WAKING}

\* All three assertions have been evaluated: an exit compare-and-swap
\* failed, a wake did not find Idle, a register call was turned away.
C17_Witness ==
    \E c \in Callers, d \in Callers, e \in Callers :
        /\ cexit[c][1] = "failed"
        /\ cobs[d][1] = "wake_miss"
        /\ cobs[e][1] = "busy"

\* C18 (never stuck): whenever no register and no wake call is running the
\* status is Idle.
C18_NeverStuck ==
    CellQuiet => state = WAITING

\* All calls returned after a wake arrived during a registration and a wake
\* overlapped another wake.
C18_Witness ==
    /\ CellQuiet
    /\ \E c \in Callers, d \in Callers :
           /\ cexit[c][1] = "failed"
           /\ cobs[d] = <<"wake_miss", WAKING, WAKING>>

\* The callers that hold a waiter they took out of the slot.
Holding == {c \in Callers : cheld[c] # NoopWaker}

\* C20 (fired at most once): the waiters fired after being taken out of the
\* slot, those held by a call that took them and the one in the slot are
\* together no more than the waiters register stored, so that none is taken
\* twice; and while no register was ever called a wake fires nothing and
\* leaves the status Idle.
C20_FiredAtMostOnce ==
    /\ ctakes + Cardinality(Holding) + (IF waker # NoopWaker THEN 1 ELSE 0)
           <= cstores
    /\ (\A c \in Callers : cwaiter[c] = NoopWaker) =>
           /\ ctakes = 0 /\ waker = NoopWaker
           /\ CellQuiet => state = WAITING

\* A stored waiter was taken and fired, a later wake found the no-op waker,
\* and all the calls have returned.
C20_Witness ==
    /\ CellQuiet /\ cstores = 1 /\ ctakes = 1 /\ waker = NoopWaker
    /\ \E c \in Callers : ccalls[c] = MaxCalls /\ cobs[c][1] = "wake_lock"
                           /\ cwaiter[c] = NoopWaker

\* The positions of the engine inside register_ref.
InRegister ==
    epc \in {"reg_cas", "reg_store", "reg_exit", "reg_swap", "reg_restore",
             "reg_fire"}

\* C13 (register before suspending): the driver is suspended only in a step
\* that has called register exactly once; a step that is dequeuing and
\* applying, or that has reported Terminated, has called it not at all;
\* and register is called only by a step that has just found the control
\* queue empty.
C13_RegisterBeforeSuspend ==
    /\ [](/\ epc = "park" => regCalls = 1
          /\ InRegister => regCalls = 1
          /\ epc \in {"recv", "cancelled"} => regCalls = 0)
    /\ [][regCalls' > regCalls =>
              (epc = "recv" /\ Queue = << >> /\ epc' = "reg_cas")]_vars

\* The driver suspended after a step that applied messages and then
\* registered, having been suspended and resumed before.
C13_Witness ==
    /\ epc = "park" /\ regCalls = 1
    /\ nApplied = MaxConcMsgs
    /\ waker = ThreadWaker /\ regFired

\* The mapping obtained by folding the first n control messages over the
\* empty mapping: Subscribe sets, Unsubscribe removes, Deliver removes a
\* mapped key whose Sender reported Closed.
ReportedClosed(n) ==
    \E a \in 1..Len(attempts) : AttM(attempts[a]) = n /\ ~AttOk(attempts[a])
RECURSIVE Folded(_)
Folded(n) ==
    IF n = 0 THEN [k \in Keys |-> NoDest]
    ELSE IF MsgT(log[n]) = "Sub"
         THEN [Folded(n - 1) EXCEPT ![MsgK(log[n])] = MsgS(log[n])]
    ELSE IF MsgT(log[n]) = "Unsub"
         THEN [Folded(n - 1) EXCEPT ![MsgK(log[n])] = NoDest]
    ELSE IF Folded(n - 1)[MsgK(log[n])] # NoDest /\ ReportedClosed(n)
         THEN [Folded(n - 1) EXCEPT ![MsgK(log[n])] = NoDest]
    ELSE Folded(n - 1)

\* The try_send calls made for message j.
AttemptsOf(j) == {a \in 1..Len(attempts) : AttM(attempts[a]) = j}

\* C14 (the mapping is the fold of the dequeued messages): after the engine
\* has dequeued n messages the map equals their fold, and every Deliver was
\* attempted once, on the Sender its key was mapped to when it was dequeued,
\* and not at all when the key was not mapped.
C14_MappingIsFold ==
    /\ registry = Folded(nApplied)
    /\ \A j \in 1..nApplied :
           IF MsgT(log[j]) = "Msg" /\ Folded(j - 1)[MsgK(log[j])] # NoDest
           THEN /\ Cardinality(AttemptsOf(j)) = 1
                /\ \A a \in AttemptsOf(j) :
                       /\ AttK(attempts[a]) = MsgK(log[j])
                       /\ AttS(attempts[a]) = Folded(j - 1)[MsgK(log[j])]
           ELSE AttemptsOf(j) = {}

\* Subscribe(k, s1), Subscribe(k, s2) with another Sender, Deliver(k, v):
\* all applied, v handed to s2.
C14_Witness ==
    /\ nApplied = MaxMsgs
    /\ MsgT(log[1]) = "Sub" /\ MsgT(log[2]) = "Sub" /\ MsgT(log[3]) = "Msg"
    /\ MsgK(log[1]) = MsgK(log[2]) /\ MsgK(log[2]) = MsgK(log[3])
    /\ MsgS(log[1]) # MsgS(log[2])
    /\ DeliveredTo(3, MsgS(log[2])) # {}

\* The wake() positions of a handle.
InWake(h) == hpc[h] \in {"w_or", "w_swap", "w_and", "w_fire"}

\* C15 (sever before the wake decision): a Handle that reads the shared
\* count has severed its endpoint, and while a Handle destruction is inside
\* wake() with the engine alive no producer endpoint is open, so that
\* try_recv on the drained queue reports Disconnected.
C15_SeveredBeforeWake ==
    \A h \in Handles :
        /\ hpc[h] = "d_count" => ~EndpointOpen(h)
        /\ (hret[h] = "drop" /\ InWake(h) /\ EngineAlive) =>
               /\ OpenEndpoints = 0
               /\ TryRecvEmpty(OpenEndpoints) = "Disconnected"

\* The destruction of the last of two Handles is inside wake() while the
\* engine is alive and the other Handle is gone.
C15_Witness ==
    \E h \in Handles, g \in Handles :
        /\ hret[h] = "drop" /\ InWake(h) /\ EngineAlive
        /\ hpc[g] = "dead"

\* C19 (lookup misses mutate nothing): when the engine applies Unsubscribe
\* or Deliver for a key that is absent, the map and the try_send calls stay
\* as they are and the engine goes on to the next message; applying any
\* message leaves the entries of all other keys as they are; and the call
\* that enqueued a message has returned Ok.
C19_MissMutatesNothing ==
    /\ [][nApplied' # nApplied =>
              /\ ( /\ MsgT(log[nApplied + 1]) \in {"Unsub", "Msg"}
                   /\ registry[MsgK(log[nApplied + 1])] = NoDest )
                 => /\ registry' = registry /\ attempts' = attempts
                    /\ epc' = "recv" /\ nApplied' = nApplied + 1
              /\ \A k \in Keys \ {MsgK(log[nApplied + 1])} :
                     registry'[k] = registry[k]]_vars
    /\ [](\A h \in Handles :
              (hpc[h] = "idle" /\ lastEnq[h]) => lastRes[h] = "ok")

\* An Unsubscribe or a Deliver for an absent key was applied, while another
\* key was mapped, and the Handle's call has returned.
C19_Witness ==
    \E j \in 1..nApplied, k \in Keys :
        /\ MsgT(log[j]) \in {"Unsub", "Msg"}
        /\ Folded(j - 1)[MsgK(log[j])] = NoDest
        /\ Folded(j - 1)[k] # NoDest /\ registry[k] # NoDest
        /\ j = Len(log) /\ hpc[1] = "idle" /\ lastRes[1] = "ok"

====
